---- MODULE Spec2Model ----
(***************************************************************************)
(* The client-side data-access layer of the chess front end:               *)
(*   - KasupelSocket (static/js/api/socket.js): correlation of outbound    *)
(*     events with their responses, and the dispatch of pushed events;     *)
(*   - Paginator (static/js/api/types.js) on top of call / Session         *)
(*     (static/js/api/utils.js): lazy cursor-based pagination.             *)
(*   - Session (utils.js) on its own, and the decoders, enums and error    *)
(*     codes of types.js as functions applied to values.                   *)
(* The parts share no state beyond the session; Spec is the socket,        *)
(* PaginatorSpec the paginator, SessionSpec the session, TypesSpec the     *)
(* functions of types.js.                                                  *)
(***************************************************************************)
EXTENDS Integers, Sequences, FiniteSets, TLC

\* ------------------------------------------------------------------ bounds
MaxCalls == 2          \* sendEvent calls made on the socket
MaxHandlers == 2       \* on() registrations made on the socket
MaxPageCalls == 3      \* getPage calls made on the paginator
MaxAccountCalls == 2   \* logout / deleteAccount calls made
MaxLogCalls == 4       \* extendLog calls made on one account page
MaxPaginators == 2     \* log types selected on one account page

\* ------------------------------------------------------------- state
VARIABLES
  eventId,      \* KasupelSocket.eventId
  handlers,     \* KasupelSocket.handlers: event name -> array of callbacks
  listeners,    \* the listeners sendEvent registered with socket.on, in order
  calls,        \* one record per sendEvent call: its promise
  emitted,      \* what socket.emit was given, in order
  connected,    \* the transport is up
  dispatch      \* what the arrival of the last inbound event did

socketVars == <<eventId, handlers, listeners, calls, emitted, connected, dispatch>>

VARIABLES
  page,          \* Paginator.page: the auto-advance cursor
  pages,         \* Paginator.pages: the page count last reported, or Null
  endReached,    \* Paginator.endReached
  parameters,    \* Paginator.parameters: the query object given to call
  authenticate,  \* Paginator.authenticate
  cookies,       \* the cookie store: sessionId and sessionToken
  cachedSession, \* _cached_session
  pcalls,        \* one record per getPage call: its promise
  requests       \* the requests given to fetch, in order

paginatorFields == <<page, pages, endReached, parameters, authenticate>>
sessionVars == <<cookies, cachedSession>>
paginatorVars == <<paginatorFields, sessionVars, pcalls, requests>>

VARIABLES
  got,           \* what Session.getSession did when the page last called it
                 \* since the session was last stored or forgotten
  stored         \* the last of storeSession / forgetSession, with its arguments
                 \* and the cached session it dropped

VARIABLES
  acalls         \* one record per logout / deleteAccount call: its promise,
                 \* whether a session was cached when it was made and whether
                 \* the call filled the cache

sessionLog == <<got, stored, acalls>>

VARIABLES
  applied        \* the last application of a function of types.js: its
                 \* name, its arguments and what it returned

VARIABLES
  paginators,    \* the account page: the Paginator objects getGameData has
                 \* made, in order of creation
  paginator,     \* the page's variable paginator: an index of paginators,
                 \* 0 while it is null
  logCalls,      \* the calls of extendLog, in call order, each with the
                 \* getPage call it made
  scrollRegistered  \* the load listener has run
viewerVars == <<paginators, paginator, logCalls, scrollRegistered>>

vars == <<socketVars, paginatorVars, sessionLog, applied, viewerVars>>

\* ------------------------------------------------------------- values, enums
\* JavaScript values where a position can hold more than numbers.
Undefined == [t |-> "undefined"]
JsNull == [t |-> "null"]
Num(n) == [t |-> "number", v |-> n]
\* Symbol(name), created by the constructor of the enum e.
Sym(e, name) == [t |-> "symbol", enum |-> e, description |-> name]
Truthy(v) == v # Undefined /\ v # JsNull /\ v # Num(0)

\* The names each enum is constructed with, in order.
EnumNames ==
  [ GameMode |-> <<"CHESS">>,
    Winner |-> <<"GAME_NOT_COMPLETE", "HOST", "AWAY", "DRAW">>,
    Conclusion |-> <<"GAME_NOT_COMPLETE", "CHECKMATE", "RESIGNATION", "TIME",
                     "STALEMATE", "THREEFOLD_REPETITION", "FIFTY_MOVE_RULE",
                     "AGREED_DRAW">>,
    PieceType |-> <<"PAWN", "ROOK", "KNIGHT", "BISHOP", "QUEEN", "KING">>,
    Side |-> <<"HOST", "AWAY">>,
    DisconnectReason |-> <<"INVITE_DECLINED", "NEW_CONNECTION", "GAME_OVER">> ]
Enums == DOMAIN EnumNames

\* Values counted from the array index itself, without the + 1.
EnumValueFromZero(i) == i - 1

\* this.values[names[i]] = parseInt(i) + 1, for the i-th name counted from 1
\* (the array index is i - 1).
EnumValue(i) == (i - 1) + 1

\* The first of the positions at which a loop over this.values would
\* return, or 0 when it would return at none.
FirstHit(hits) ==
  IF hits = {} THEN 0 ELSE CHOOSE i \in hits : \A j \in hits : i <= j

\* Enum.getByValue: the option of the first name whose value === value; the
\* loop ends without a return when there is none, and the call returns
\* undefined.  The function has no throw statement.
GetByValue(e, value) ==
  LET i == FirstHit({ k \in DOMAIN EnumNames[e] : Num(EnumValue(k)) = value }) IN
    IF i = 0 THEN Undefined ELSE Sym(e, EnumNames[e][i])

\* Enum.valueFor: the value of the first name equal to option.description.
ValueFor(e, option) ==
  LET i == FirstHit({ k \in DOMAIN EnumNames[e] :
                        EnumNames[e][k] = option.description }) IN
    IF i = 0 THEN Undefined ELSE Num(EnumValue(i))

\* An object without properties.
EmptyObject == [f \in {} |-> Undefined]

\* The (event name, options) pairs sendEvent is called with by getGameState
\* and by the helpers that pass no options (here resign).
SendKinds ==
  { [name |-> "game_state", options |-> [responseName |-> "game_state"]],
    [name |-> "resign", options |-> EmptyObject] }

\* Names under which the server sends events.
InboundNames == {"ack", "game_state", "request_error", "game_start"}
\* Names callers subscribe to with on().
OnNames == {"game_state", "game_start"}
Bodies == {"a", "b"}
ErrorCodes == {2134}

\* The keys of this.processors.
ProcessorNames ==
  { "game_disconnect", "game_start", "game_end", "draw_offer", "move",
    "game_state", "allowed_moves", "notification" }

NoData ==
  [name |-> "none", response_to |-> -1, body |-> "none", error |-> 0,
   message |-> "none"]
NoError == [kind |-> "none", code |-> 0, message |-> "none"]
NoArgs == [threw |-> FALSE, value |-> <<>>]
NoDispatch ==
  [ data |-> NoData, any |-> FALSE, args |-> NoArgs, invoked |-> <<>>,
    threw |-> FALSE, delivered |-> FALSE ]

\* An inbound event: its name and the payload's fields.  response_to = -1
\* stands for a payload with no response_to (a push).
InboundEvents ==
  { [name |-> n, response_to |-> r, body |-> b, error |-> 0, message |-> "none"] :
      n \in InboundNames \ {"request_error"}, r \in -1 .. MaxCalls - 1,
      b \in Bodies }
  \cup
  { [name |-> "request_error", response_to |-> r, body |-> "none", error |-> e,
     message |-> "refused"] :
      r \in -1 .. MaxCalls - 1, e \in ErrorCodes }

\* ------------------------------------------------------------- sendEvent
\* const eventId = this.eventId++ : the value before the increment.
AllocEventIdPre(id) == id + 1
AllocEventId(id) == id

\* The two socket.on registrations of one call, in the order they are made.
WaitersOf(id, responseName) ==
  << [event |-> responseName, eventId |-> id, kind |-> "response"],
     [event |-> "request_error", eventId |-> id, kind |-> "error"] >>

\* {data = {}, responseName = 'ack'} = {}: the two options sendEvent takes
\* from its second argument; any other property of it is not read.
OptionData(options) ==
  IF "data" \in DOMAIN options THEN options.data ELSE EmptyObject
OptionResponseName(options) ==
  IF "responseName" \in DOMAIN options THEN options.responseName ELSE "ack"

\* data.event_id = eventId
WithEventId(data, id) ==
  [f \in DOMAIN data \cup {"event_id"} |-> IF f = "event_id" THEN id ELSE data[f]]

\* this.socket.emit(name, data): the event joins those already handed to the
\* transport, behind them.
EmitBefore(log, event) == <<event>> \o log
Emit(log, event) == Append(log, event)

\* sendEvent(name, options), up to the return of the promise.
SendEventOn(name, options) ==
  /\ Len(calls) < MaxCalls
  /\ LET id == AllocEventId(eventId)
         responseName == OptionResponseName(options)
     IN
       /\ eventId' = eventId + 1
       /\ emitted' = Emit(emitted,
                          [name |-> name, data |-> WithEventId(OptionData(options), id)])
       /\ listeners' = listeners \o WaitersOf(id, responseName)
       /\ calls' = Append(calls,
            [ eventId |-> id, name |-> name, responseName |-> responseName,
              status |-> "pending", value |-> NoData, error |-> NoError ])
  /\ dispatch' = NoDispatch
  /\ UNCHANGED <<handlers, connected>>
  /\ UNCHANGED <<paginatorVars, sessionLog, viewerVars>>

\* getGameState, resign: sendEvent with the options of the helper.
SendEvent(k) ==
  /\ SendEventOn(k.name, k.options)
  /\ UNCHANGED applied

\* ------------------------------------------------------------- on
\* The callbacks a caller registers are distinct functions: the n-th
\* registration on the socket registers callback n.
Registered == Len(handlers["game_state"]) + Len(handlers["game_start"])

On(event) ==
  /\ Registered < MaxHandlers
  /\ handlers' = [handlers EXCEPT ![event] = Append(@, Registered + 1)]
  /\ dispatch' = NoDispatch
  /\ UNCHANGED <<eventId, listeners, calls, emitted, connected>>
  /\ UNCHANGED <<paginatorVars, sessionLog, applied, viewerVars>>

\* ------------------------------------------------------------- onAny dispatcher
\* for (let handler in this.handlers[eventName]): for...in binds the loop
\* variable to the array's keys "0", "1", ..., not to its elements.
HandlerLoopValues(arr) ==
  [i \in 1 .. Len(arr) |-> [isFunction |-> FALSE, key |-> i - 1, fn |-> arr[i]]]

RECURSIVE CallEach(_)
\* handler(...args) for each loop value in turn; calling a value that is no
\* function throws a TypeError, which ends the loop.
CallEach(vals) ==
  IF vals = <<>> THEN [invoked |-> <<>>, threw |-> FALSE]
  ELSE IF ~Head(vals).isFunction THEN [invoked |-> <<>>, threw |-> TRUE]
  ELSE LET rest == CallEach(Tail(vals)) IN
         [invoked |-> <<Head(vals).fn>> \o rest.invoked, threw |-> rest.threw]

\* data.field in a processor: data is the rest parameter of the onAny
\* callback, the array of the event's arguments, which has no such property.
RestProperty(field) == Undefined

\* this.processors[eventName](data).  new GameState(undefined), reached for
\* game_end and game_state, throws a TypeError on data.board, and
\* Move.fromApiData(undefined), reached for move, on data.start_rank;
\* AllowedMoves and Notification are built from properties that are all
\* undefined.
Process(name) ==
  CASE name = "game_disconnect" ->
         [threw |-> FALSE,
          value |-> << GetByValue("DisconnectReason", RestProperty("reason")) >>]
    [] name \in {"game_start", "draw_offer"} -> [threw |-> FALSE, value |-> <<>>]
    [] name \in {"game_end", "move", "game_state"} -> [threw |-> TRUE, value |-> <<>>]
    [] name = "allowed_moves" ->
         [threw |-> FALSE,
          value |-> << [type |-> "AllowedMoves", moves |-> <<>>,
                        drawClaim |-> GetByValue("Conclusion", RestProperty("draw_claim"))] >>]
    [] name = "notification" ->
         [threw |-> FALSE,
          value |-> << [type |-> "Notification", id |-> RestProperty("id"),
                        message |-> RestProperty("message")] >>]

\* The callback given to socket.onAny.  this.processors[eventName] is undefined
\* for a name outside the processors table, and calling it throws.
OnAny(name) ==
  IF handlers[name] = <<>> THEN [args |-> NoArgs, invoked |-> <<>>, threw |-> FALSE]
  ELSE IF name \notin ProcessorNames
  THEN [args |-> [threw |-> TRUE, value |-> <<>>], invoked |-> <<>>, threw |-> TRUE]
  ELSE IF Process(name).threw
  THEN [args |-> Process(name), invoked |-> <<>>, threw |-> TRUE]
  ELSE [ args |-> Process(name),
         invoked |-> CallEach(HandlerLoopValues(handlers[name])).invoked,
         threw |-> CallEach(HandlerLoopValues(handlers[name])).threw ]

\* ------------------------------------------------------------- waiters
\* new KasupelError(data): code and message of the server's payload.
NewKasupelError(data) ==
  [kind |-> "KasupelError", code |-> data.error, message |-> data.message]

\* KasupelError(data): a class constructor invoked without new throws a
\* TypeError before any object exists.
CallKasupelError(data) == [threw |-> TRUE, value |-> NoError]

\* if (data.response_to === eventId)
MatchesAnyId(l, data) == TRUE
Matches(l, data) == data.response_to = l.eventId

\* resolve(data) of the promise of the call with this id: a settled promise
\* ignores it.
ResolveAgain(cs, id, data) ==
  [k \in DOMAIN cs |->
     IF cs[k].eventId = id THEN [cs[k] EXCEPT !.status = "resolved", !.value = data]
     ELSE cs[k]]
Resolve(cs, id, data) ==
  [k \in DOMAIN cs |->
     IF cs[k].eventId = id /\ cs[k].status = "pending"
     THEN [cs[k] EXCEPT !.status = "resolved", !.value = data]
     ELSE cs[k]]

\* reject(err) of the promise of the call with this id.
Reject(cs, id, err) ==
  [k \in DOMAIN cs |->
     IF cs[k].eventId = id /\ cs[k].status = "pending"
     THEN [cs[k] EXCEPT !.status = "rejected", !.error = err]
     ELSE cs[k]]

RECURSIVE RunListeners(_, _, _)
\* The emitter calls the listeners of the event's name in registration order;
\* an exception thrown by one of them ends the emit.
RunListeners(ls, data, cs) ==
  IF ls = <<>> THEN cs
  ELSE LET l == Head(ls) IN
    IF l.event # data.name \/ ~Matches(l, data)
    THEN RunListeners(Tail(ls), data, cs)
    ELSE IF l.kind = "response"
    THEN RunListeners(Tail(ls), data, Resolve(cs, l.eventId, data))
    ELSE LET err == CallKasupelError(data) IN
           IF err.threw THEN cs
           ELSE RunListeners(Tail(ls), data, Reject(cs, l.eventId, err.value))

\* ------------------------------------------------------------- inbound event
\* One event arrives on the socket: the onAny callback runs, then the
\* listeners of the event's name.  When the onAny callback throws, the
\* exception leaves it into the socket library, which is not part of this
\* repository: it either gives up the event or goes on to the listeners.
Arrive(data) ==
  /\ connected
  /\ LET a == OnAny(data.name) IN
       \E delivered \in (IF a.threw THEN BOOLEAN ELSE {TRUE}) :
         /\ calls' = IF delivered THEN RunListeners(listeners, data, calls) ELSE calls
         /\ dispatch' =
              [ data |-> data, any |-> handlers[data.name] # <<>>, args |-> a.args,
                invoked |-> a.invoked, threw |-> a.threw, delivered |-> delivered ]
  /\ UNCHANGED <<eventId, handlers, listeners, emitted, connected>>
  /\ UNCHANGED <<paginatorVars, sessionLog, applied, viewerVars>>

\* ------------------------------------------------------------- transport loss
\* The constructor registers no listener for the transport's disconnect, and
\* sendEvent registers none either: nothing of the object reacts to it.
Disconnect ==
  /\ connected
  /\ connected' = FALSE
  /\ dispatch' = NoDispatch
  /\ UNCHANGED <<eventId, handlers, listeners, calls, emitted>>
  /\ UNCHANGED <<paginatorVars, sessionLog, applied, viewerVars>>

SocketNext ==
  \/ \E k \in SendKinds : SendEvent(k)
  \/ \E e \in OnNames : On(e)
  \/ \E d \in InboundEvents : Arrive(d)
  \/ Disconnect

\* ========================================================== Session (utils.js)
Null == -1
NotApplied == [fn |-> "none"]
Digits == {"0", "1", "2", "3", "4", "5", "6", "7", "8", "9"}
DigitValue(c) == CHOOSE v \in 0 .. 9 : <<"0","1","2","3","4","5","6","7","8","9">>[v + 1] = c

RECURSIVE ParseDigits(_, _)
\* The value of the longest prefix of digits of s, after the digits in acc.
ParseDigits(s, acc) ==
  IF s = <<>> \/ Head(s) \notin Digits THEN acc
  ELSE ParseDigits(Tail(s), acc * 10 + DigitValue(Head(s)))

\* parseInt of a string given as its characters: NaN (Null) when the string
\* does not start with a digit.
ParseInt(s) ==
  IF s = <<>> \/ Head(s) \notin Digits THEN Null ELSE ParseDigits(s, 0)

RECURSIVE ToDigits(_)
\* The decimal characters of a natural number: `${value}` in setCookie, and
\* Number.prototype.toString.
ToDigits(n) ==
  IF n < 10 THEN << <<"0","1","2","3","4","5","6","7","8","9">>[n + 1] >>
  ELSE ToDigits(n \div 10) \o << <<"0","1","2","3","4","5","6","7","8","9">>[(n % 10) + 1] >>

\* The two cookies after deleteCookie on both (each is set to ''), which is
\* also what getCookie reads when they were never set.
NoCookies == [sessionId |-> <<>>, sessionToken |-> "none"]
\* The two cookies after setCookie('sessionToken', token) and
\* setCookie('sessionId', id).
CookiesFor(id, token) == [sessionId |-> ToDigits(id), sessionToken |-> token]
StoredCookies == CookiesFor(7, "tok")
NoSession == [sessionId |-> Null, sessionToken |-> "none"]

\* Session ids and tokens the server hands out at login.
SessionIds == {7, 12}
Tokens == {"tok", "tok2"}
\* What the sessionId cookie can hold when the page loads: anything, the
\* cookie store being shared with the user and with other code.
StoredIdStrings ==
  { <<>>, <<"7">>, <<"1", "2">>, <<"7", "x">>, <<"x">>, <<"x", "7">> }

NotCalled == [kind |-> "none", session |-> NoSession]
NothingStored == [kind |-> "none", id |-> Null, token |-> "none", dropped |-> NoSession]

\* Session.getSession with the Session constructor: the cached session, or a
\* new one read from the cookies, which is cached; NotLoggedInError when the
\* stored id does not parse.
GetSessionUncached ==
  IF ParseInt(cookies.sessionId) = Null
  THEN [threw |-> TRUE, session |-> NoSession, cache |-> cachedSession]
  ELSE [threw |-> FALSE, cache |-> cachedSession,
        session |-> [sessionId |-> ParseInt(cookies.sessionId),
                     sessionToken |-> cookies.sessionToken]]
GetSession ==
  IF cachedSession # NoSession
  THEN [threw |-> FALSE, session |-> cachedSession, cache |-> cachedSession]
  ELSE LET id == ParseInt(cookies.sessionId) IN
    IF id = Null
    THEN [threw |-> TRUE, session |-> NoSession, cache |-> cachedSession]
    ELSE LET new == [sessionId |-> id, sessionToken |-> cookies.sessionToken] IN
           [threw |-> FALSE, session |-> new, cache |-> new]

\* The page calls Session.getSession.
GetSessionCall ==
  /\ LET s == GetSession IN
       /\ cachedSession' = s.cache
       /\ got' = [kind |-> IF s.threw THEN "NotLoggedInError" ELSE "session",
                  session |-> s.session]
  /\ UNCHANGED <<cookies, stored, acalls, paginatorFields, pcalls, requests>>
  /\ UNCHANGED <<socketVars, applied, viewerVars>>

\* _cached_session after forgetSession's first line.
CacheKept == cachedSession
CacheAfterForget == NoSession

\* Session.forgetSession
ForgetSession ==
  /\ cachedSession' = CacheAfterForget
  /\ cookies' = NoCookies
  /\ got' = NotCalled
  /\ stored' = [kind |-> "forgotten", id |-> Null, token |-> "none",
                dropped |-> cachedSession]
  /\ UNCHANGED <<acalls, paginatorFields, pcalls, requests>>
  /\ UNCHANGED <<socketVars, applied, viewerVars>>

\* Session.storeSession(id, token): forgetSession, then the two cookies.
StoreSession(id, token) ==
  /\ cachedSession' = CacheAfterForget
  /\ cookies' = CookiesFor(id, token)
  /\ got' = NotCalled
  /\ stored' = [kind |-> "stored", id |-> id, token |-> token,
                dropped |-> cachedSession]
  /\ UNCHANGED <<acalls, paginatorFields, pcalls, requests>>
  /\ UNCHANGED <<socketVars, applied, viewerVars>>

\* ---- logout and deleteAccount (accounts.js)
AccountCalls == {"logout", "deleteAccount"}
\* What the server, or the network, answers to the request of such a call.
AccountReplies == {"ok", "KasupelError", "TypeError"}

\* logout() / deleteAccount(), up to the return of call: call asks for the
\* session first (authenticate: true), which fills an empty cache from the
\* cookies or throws NotLoggedInError before any request is made.
AccountCall(fn) ==
  /\ Len(acalls) < MaxAccountCalls
  /\ LET s == GetSession IN
       /\ cachedSession' = s.cache
       /\ acalls' = Append(acalls,
            [ fn |-> fn, requested |-> ~s.threw,
              status |-> IF s.threw THEN "rejected" ELSE "pending",
              cached |-> cachedSession # NoSession,
              filled |-> cachedSession # s.cache ])
  /\ UNCHANGED <<cookies, got, stored, paginatorFields, pcalls, requests>>
  /\ UNCHANGED <<socketVars, applied, viewerVars>>

\* .then(_response => Session.forgetSession()): the handler runs on a
\* fulfilled call only.
ForgetsOnAnyReply(reply) == TRUE
ForgetsOn(reply) == reply = "ok"

\* The reply to the request of call i arrives.
AccountResponse(i, reply) ==
  /\ acalls[i].status = "pending"
  /\ acalls' = [acalls EXCEPT ![i].status = IF reply = "ok" THEN "resolved"
                                            ELSE "rejected"]
  /\ IF ForgetsOn(reply)
     THEN /\ cachedSession' = CacheAfterForget
          /\ cookies' = NoCookies
          /\ got' = NotCalled
          /\ stored' = [kind |-> "forgotten", id |-> Null, token |-> "none",
                        dropped |-> cachedSession]
     ELSE UNCHANGED <<cachedSession, cookies, got, stored>>
  /\ UNCHANGED <<paginatorFields, pcalls, requests>>
  /\ UNCHANGED <<socketVars, applied, viewerVars>>

SessionNext ==
  \/ GetSessionCall
  \/ \E id \in SessionIds, token \in Tokens : StoreSession(id, token)
  \/ ForgetSession
  \/ \E fn \in AccountCalls : AccountCall(fn)
  \/ \E i \in DOMAIN acalls, reply \in AccountReplies : AccountResponse(i, reply)

\* ========================================================== types (types.js)
\* new Move(data): promotion defaults to null when it is undefined.
NewMove(data) ==
  [ startRank |-> data.startRank, startFile |-> data.startFile,
    endRank |-> data.endRank, endFile |-> data.endFile,
    promotion |-> IF data.promotion = Undefined THEN JsNull ELSE data.promotion ]

\* Move.fromApiData
MoveFromApiData(data) ==
  NewMove([ startRank |-> data.start_rank, startFile |-> data.start_file,
            endRank |-> data.end_rank, endFile |-> data.end_file,
            promotion |-> GetByValue("PieceType", data.promotion) ])

\* Move.apiFormat
MoveApiFormatNoPromotion(m) ==
  [ start_rank |-> m.startRank, start_file |-> m.startFile,
    end_rank |-> m.endRank, end_file |-> m.endFile, promotion |-> JsNull ]
MoveApiFormat(m) ==
  [ start_rank |-> m.startRank, start_file |-> m.startFile,
    end_rank |-> m.endRank, end_file |-> m.endFile,
    promotion |-> IF Truthy(m.promotion) THEN ValueFor("PieceType", m.promotion)
                  ELSE JsNull ]

\* prettyTimedelta: the string as its pieces, one per period that fits, or
\* '0' when none does.
TimePeriods ==
  << [name |-> "d", seconds |-> 24 * 60 * 60], [name |-> "h", seconds |-> 60 * 60],
     [name |-> "m", seconds |-> 60], [name |-> "s", seconds |-> 1] >>

RECURSIVE PrettyFrom(_, _)
PrettyFrom(idx, seconds) ==
  IF idx > Len(TimePeriods) THEN <<>>
  ELSE LET period == TimePeriods[idx] IN
    IF period.seconds <= seconds
    THEN << [n |-> seconds \div period.seconds, text |-> period.name] >>
           \o PrettyFrom(idx + 1, seconds % period.seconds)
    ELSE PrettyFrom(idx + 1, seconds)

PrettyTimedelta(seconds) ==
  LET pretty == PrettyFrom(1, seconds) IN
    IF pretty = <<>> THEN << [n |-> 0, text |-> ""] >> ELSE pretty

\* new TimeControl(mainThinkingTime, fixedExtraTime, timeIncrementPerTurn)
NewTimeControl(mainThinkingTime, fixedExtraTime, timeIncrementPerTurn) ==
  [ mainThinkingTime |-> mainThinkingTime,
    fixedExtraTime |-> fixedExtraTime,
    timeIncrementPerTurn |-> timeIncrementPerTurn,
    shortNotation |->
      PrettyTimedelta(mainThinkingTime)
      \o (IF timeIncrementPerTurn # 0
          THEN << [n |-> 0, text |-> "|"] >> \o PrettyTimedelta(timeIncrementPerTurn)
          ELSE <<>>)
      \o (IF fixedExtraTime # 0
          THEN << [n |-> 0, text |-> " delay "] >> \o PrettyTimedelta(fixedExtraTime)
          ELSE <<>>) ]

\* TimeControl.apiFormat
TimeControlApiFormat(t) ==
  [ main_thinking_time |-> t.mainThinkingTime,
    fixed_extra_time |-> t.fixedExtraTime,
    time_increment_per_turn |-> t.timeIncrementPerTurn ]

\* The TimeControl the Game constructor builds from the data of the API.
TimeControlFromApiData(data) ==
  NewTimeControl(data.main_thinking_time, data.fixed_extra_time,
                 data.time_increment_per_turn)

RECURSIVE DomainRegex(_)
\* The characters isInDomain appends to '^': those of the domain before its
\* first '0'.
DomainRegexWhole(chars) == chars
DomainRegex(chars) ==
  IF chars = <<>> \/ Head(chars) = "0" THEN <<>>
  ELSE <<Head(chars)>> \o DomainRegex(Tail(chars))

RECURSIVE RegexTest(_, _)
\* new RegExp('^' + literal).test(string), for a literal of digits.
RegexTest(literal, string) ==
  IF literal = <<>> THEN TRUE
  ELSE IF string = <<>> \/ Head(string) # Head(literal) THEN FALSE
  ELSE RegexTest(Tail(literal), Tail(string))

\* KasupelError.isInDomain(domain) on an error with the code given.
IsInDomain(code, domain) == RegexTest(DomainRegex(ToDigits(domain)), ToDigits(code))

\* The property name a key is turned into when it indexes an object: the
\* decimal string of a number, 'null' for null.
PropertyName(key) == IF key = Null THEN <<"n", "u", "l", "l">> ELSE ToDigits(key)

\* table[key]: undefined when the table has no such property.
LookupAny(table, key) == table[CHOOSE name \in DOMAIN table : TRUE]
Lookup(table, key) ==
  IF PropertyName(key) \in DOMAIN table THEN table[PropertyName(key)] ELSE Undefined

\* gamePaginator's referenceFields, and the order for...in visits them in.
ReferenceFields == [host |-> "users", away |-> "users", invited |-> "users"]
ReferenceFieldOrder == <<"host", "away", "invited">>

RECURSIVE SubstituteFrom(_, _, _)
\* The loop over the reference fields, from the idx-th on: a field the item
\* has is replaced by the entry of its table under the item's value.
SubstituteFrom(idx, item, response) ==
  IF idx > Len(ReferenceFieldOrder) THEN item
  ELSE LET field == ReferenceFieldOrder[idx] IN
    IF field \in DOMAIN item
    THEN SubstituteFrom(idx + 1,
           [item EXCEPT ![field] = Lookup(response[ReferenceFields[field]], item[field])],
           response)
    ELSE SubstituteFrom(idx + 1, item, response)

SubstituteRefs(item, response) == SubstituteFrom(1, item, response)

\* data.field: undefined when the object has no such property.
Get(data, field) == IF field \in DOMAIN data THEN data[field] ELSE Undefined

\* new User(data), as far as the fields modelled.
NewUser(data) == [type |-> "User", id |-> data.id, username |-> data.username]

\* new Game(data), as far as the fields modelled: the id, a plain number,
\* and the three users.
NewGame(data) ==
  [ type |-> "Game", id |-> data.id, turnNumber |-> Get(data, "turn_number"),
    host |-> IF Truthy(Get(data, "host")) THEN NewUser(data.host) ELSE JsNull,
    away |-> IF Truthy(Get(data, "away")) THEN NewUser(data.away) ELSE JsNull,
    invited |-> IF Truthy(Get(data, "invited")) THEN NewUser(data.invited) ELSE JsNull ]

\* What the then handler of getPage hands to the decoder, item by item.
PassedToDecoder(response) ==
  [i \in 1 .. Len(response.games) |-> SubstituteRefs(response.games[i], response)]

\* The page the then handler of getPage returns.
PageOf(response) ==
  [i \in 1 .. Len(response.games) |-> NewGame(PassedToDecoder(response)[i])]

\* ---- the values the functions of types.js are applied to
Squares == {0, 7}
Promotions ==
  {JsNull} \cup { Sym("PieceType", EnumNames.PieceType[i]) : i \in DOMAIN EnumNames.PieceType }
Moves ==
  { NewMove([startRank |-> a, startFile |-> b, endRank |-> c, endFile |-> d,
             promotion |-> p]) : a, b, c, d \in Squares, p \in Promotions }
Times == {0, 30, 90, 3600}
TimeControls == { NewTimeControl(m, f, i) : m, f, i \in Times }
WireIntegers == 0 .. 9
Codes == {210, 1001, 2134, 2198, 3201}
Domains == {0, 21, 22, 213, 1000, 1001, 2000, 2100, 2130, 2134, 21345}

\* The users table of a response, and the items of its games: the host is a
\* key of the table or one it lacks, the away player a key or null, the
\* invited player is absent or a key.
UsersTable ==
  [ name \in {<<"3">>, <<"4">>} |->
      [id |-> ParseInt(name), username |-> IF name = <<"3">> THEN "u3" ELSE "u4"] ]
Items ==
  { [id |-> 1, turn_number |-> 9, host |-> h, away |-> a] : h \in {3, 5}, a \in {Null, 4} }
  \cup
  { [id |-> 2, turn_number |-> 9, host |-> h, away |-> a, invited |-> 3] :
      h \in {3, 5}, a \in {Null, 4} }
Responses ==
  { [games |-> g, users |-> UsersTable] :
      g \in { <<i>> : i \in Items } \cup { <<i, j>> : i, j \in Items } }

\* ---- applications
MoveRoundTrip(m) ==
  /\ applied' = [ fn |-> "Move", input |-> m, wire |-> MoveApiFormat(m),
                  output |-> MoveFromApiData(MoveApiFormat(m)) ]
  /\ UNCHANGED <<socketVars, paginatorVars, sessionLog, viewerVars>>

TimeControlRoundTrip(t) ==
  /\ applied' = [ fn |-> "TimeControl", input |-> t, wire |-> TimeControlApiFormat(t),
                  output |-> TimeControlFromApiData(TimeControlApiFormat(t)) ]
  /\ UNCHANGED <<socketVars, paginatorVars, sessionLog, viewerVars>>

EnumGetByValue(e, v) ==
  /\ applied' = [ fn |-> "getByValue", enum |-> e, value |-> v, threw |-> "none",
                  result |-> GetByValue(e, Num(v)) ]
  /\ UNCHANGED <<socketVars, paginatorVars, sessionLog, viewerVars>>

\* valueFor and getByValue applied one after the other, both ways, to the
\* i-th declared option of an enum and to the integer i.
EnumRoundTrip(e, i) ==
  LET option == Sym(e, EnumNames[e][i])
      value == ValueFor(e, option)
      decoded == GetByValue(e, Num(i)) IN
    /\ applied' = [ fn |-> "Enum", enum |-> e, index |-> i, option |-> option,
                    value |-> value, back |-> GetByValue(e, value),
                    decoded |-> decoded,
                    encoded |-> IF decoded = Undefined THEN Undefined
                                ELSE ValueFor(e, decoded) ]
    /\ UNCHANGED <<socketVars, paginatorVars, sessionLog, viewerVars>>

KasupelErrorIsInDomain(code, domain) ==
  /\ applied' = [ fn |-> "isInDomain", code |-> code, domain |-> domain,
                  result |-> IsInDomain(code, domain) ]
  /\ UNCHANGED <<socketVars, paginatorVars, sessionLog, viewerVars>>

PageDecoded(response) ==
  /\ applied' = [ fn |-> "getPage.then", response |-> response,
                  passed |-> PassedToDecoder(response), result |-> PageOf(response) ]
  /\ UNCHANGED <<socketVars, paginatorVars, sessionLog, viewerVars>>

TypesNext ==
  \/ \E m \in Moves : MoveRoundTrip(m)
  \/ \E t \in TimeControls : TimeControlRoundTrip(t)
  \/ \E e \in Enums, v \in WireIntegers : EnumGetByValue(e, v)
  \/ \E e \in Enums : \E i \in DOMAIN EnumNames[e] : EnumRoundTrip(e, i)
  \/ \E c \in Codes, d \in Domains : KasupelErrorIsInDomain(c, d)
  \/ \E r \in Responses : PageDecoded(r)

\* ========================================================== typed helpers (socket.js)
\* The moves and the reasons the helpers are called with.
HelperMoves == { m \in Moves : m.startRank = 0 /\ m.startFile = 0 /\ m.endRank = 7 }
Reasons == { Sym("Conclusion", EnumNames.Conclusion[i]) : i \in DOMAIN EnumNames.Conclusion }

\* makeMove(move)
MakeMove(move) ==
  /\ SendEventOn("move", [data |-> MoveApiFormat(move)])
  /\ applied' = [fn |-> "makeMove", input |-> move]

\* claimDraw(reason)
ClaimDraw(reason) ==
  /\ SendEventOn("claim_draw", [reason |-> ValueFor("Conclusion", reason)])
  /\ applied' = [fn |-> "claimDraw", input |-> reason]

HelpersNext ==
  \/ \E m \in HelperMoves : MakeMove(m)
  \/ \E r \in Reasons : ClaimDraw(r)

\* ========================================================== Paginator (types.js)
ExhaustionCode == 3201
OtherCode == 2134
ExplicitPages == {5}
PagesReported == {2}
\* The numbers of items in the pages the server returns.
PageLengths == {0, 2}

NoReply == [kind |-> "none", code |-> 0, items |-> <<>>, pages |-> Null]
NoFailure == [kind |-> "none", code |-> 0]

\* What the server, or the network, answers to one request.
Replies ==
  { [kind |-> "ok", code |-> 0, items |-> [i \in 1 .. n |-> [id |-> i]], pages |-> t] :
      n \in PageLengths, t \in PagesReported }
  \cup
  { [kind |-> "KasupelError", code |-> c, items |-> <<>>, pages |-> Null] :
      c \in {ExhaustionCode, OtherCode} }
  \cup
  { [kind |-> "TypeError", code |-> 0, items |-> <<>>, pages |-> Null] }

\* The error a failed reply makes call throw: handleResponse's KasupelError
\* with the server's code, or fetch's own error, which has no code.
ErrorOf(reply) == [kind |-> reply.kind, code |-> reply.code]

\* page = this.page++ for a call without a page, else the page given.
ChosenPagePre(p) == IF p = Null THEN page + 1 ELSE p
ChosenPage(p) == IF p = Null THEN page ELSE p

\* The cursor after the first lines of getPage.
CursorAfterAlways(p) == page + 1
CursorAfterRequest(p) ==
  IF p = Null /\ ~(authenticate /\ GetSession.threw) THEN page + 1 ELSE page
CursorAfter(p) == IF p = Null THEN page + 1 ELSE page

\* getPage(p), p = Null for a call without a page: up to the return of call,
\* which builds the request's URL from the parameters and gives it to fetch
\* before it returns.  On an authenticated paginator call first asks for the
\* session; without one it throws before any request is made, the catch
\* handler rethrows (the error has no code) and the promise is rejected.
\* call throws before it reaches fetch: only when it is to authenticate and
\* Session.getSession throws.  Nothing else of the paginator is consulted.
CallThrowsPastLastPage(s) ==
  (authenticate /\ s.threw) \/ endReached \/ (pages # Null /\ page >= pages)
CallThrows(s) == authenticate /\ s.threw

GetPage(p) ==
  /\ Len(pcalls) < MaxPageCalls
  /\ LET pg == ChosenPage(p)
         s == GetSession
         failed == CallThrows(s)
         params == [ page |-> pg,
                     session_id |-> IF authenticate /\ ~s.threw
                                    THEN s.session.sessionId
                                    ELSE parameters.session_id ]
     IN
       /\ page' = CursorAfter(p)
       /\ parameters' = params
       /\ cachedSession' = IF authenticate THEN s.cache ELSE cachedSession
       /\ requests' = IF failed THEN requests
                      ELSE Append(requests,
                             [page |-> params.page, call |-> Len(pcalls) + 1])
       /\ pcalls' = Append(pcalls,
            [ autoPage |-> p = Null, page |-> pg, requested |-> ~failed,
              before |-> [pages |-> pages, endReached |-> endReached],
              status |-> IF failed THEN "rejected" ELSE "pending",
              reply |-> NoReply, result |-> <<>>,
              error |-> IF failed THEN [kind |-> "NotLoggedInError", code |-> 0]
                        ELSE NoFailure ])
  /\ UNCHANGED <<pages, endReached, authenticate, cookies>>
  /\ UNCHANGED <<socketVars, sessionLog, applied, viewerVars>>

\* The page returned for the items of a reply; the items of these replies
\* have no reference field and the tables are empty.
DecodePage(items) == PageOf([games |-> items, users |-> <<>>])

\* (error.code === 3201) && autoPage
IsExhaustionAnyMode(error, autoPage) == error.code = ExhaustionCode
IsExhaustionNever(error, autoPage) == FALSE
IsExhaustion(error, autoPage) == error.code = ExhaustionCode /\ autoPage

\* this.endReached after the handlers of getPage have run on a reply: the
\* only assignment is the catch handler's, to true; the then handler has
\* none.
EndReachedClearedByPage(reply, autoPage) ==
  IF reply.kind = "ok" THEN FALSE
  ELSE IF IsExhaustion(ErrorOf(reply), autoPage) THEN TRUE ELSE endReached
EndReachedAfter(reply, autoPage) ==
  IF reply.kind # "ok" /\ IsExhaustion(ErrorOf(reply), autoPage) THEN TRUE
  ELSE endReached

\* The reply to the request of call i arrives: the then handler on a page,
\* the catch handler on an error.
Respond(i, reply) ==
  /\ pcalls[i].status = "pending"
  /\ endReached' = EndReachedAfter(reply, pcalls[i].autoPage)
  /\ IF reply.kind = "ok"
     THEN /\ pages' = reply.pages
          /\ pcalls' = [pcalls EXCEPT ![i].status = "resolved", ![i].reply = reply,
                                      ![i].result = DecodePage(reply.items)]
     ELSE IF IsExhaustion(ErrorOf(reply), pcalls[i].autoPage)
     THEN /\ pcalls' = [pcalls EXCEPT ![i].status = "resolved", ![i].reply = reply,
                                      ![i].result = <<>>]
          /\ UNCHANGED pages
     ELSE /\ pcalls' = [pcalls EXCEPT ![i].status = "rejected", ![i].reply = reply,
                                      ![i].error = ErrorOf(reply)]
          /\ UNCHANGED pages
  /\ UNCHANGED <<page, parameters, authenticate, sessionVars, requests>>
  /\ UNCHANGED <<socketVars, sessionLog, applied, viewerVars>>

PaginatorNext ==
  \/ \E p \in {Null} \cup ExplicitPages : GetPage(p)
  \/ \E i \in DOMAIN pcalls, r \in Replies : Respond(i, r)
  \/ StoreSession(7, "tok")
  \/ ForgetSession

\* ========================================================== account page (account.js)
\* The game-log viewer of the account page.  Every Paginator it makes is
\* used in auto-advance mode only; of a Paginator it keeps the cursor and
\* the endReached flag.

\* The log types offered to a logged-in user who views another account
\* (getLogOptions): both have a paginator that does not authenticate.
LogTypes == {"COMPLETED", "COMMON_COMPLETED"}

\* The Paginator getGameData returns: page 0, endReached false.
NewPaginator(logType) == [logType |-> logType, page |-> 0, endReached |-> FALSE]

\* paginator.getPage() up to the return of call, on the paginator at index
\* current of ps: page = this.page++.
CursorMoved(ps, current) == [ps EXCEPT ![current].page = @ + 1]

\* One call of extendLog, suspended on the promise of its getPage call.
\* origin is the caller, chain the selectLogType call the chain of calls
\* began with (0 for the scroll listener), on the paginator getPage was
\* called on.
LogCall(origin, chain, ps, current) ==
  [ origin |-> origin, chain |-> chain, on |-> current,
    page |-> ps[current].page, status |-> "pending", reply |-> NoFailure,
    endReached |-> FALSE, next |-> "none" ]

\* selectLogType: a new Paginator is assigned to the page's variable and
\* extendLog is called.
SelectLogTypeOn(logType) ==
  LET ps == Append(paginators, NewPaginator(logType))
      current == Len(ps) IN
    /\ paginator' = current
    /\ paginators' = CursorMoved(ps, current)
    /\ logCalls' = Append(logCalls, LogCall("selectLogType", current, ps, current))

\* The load listener, once the account has been fetched: the log options
\* are shown, the completed games are selected and extendLog is registered
\* as the window's scroll listener.
Load ==
  /\ ~scrollRegistered
  /\ SelectLogTypeOn("COMPLETED")
  /\ scrollRegistered' = TRUE
  /\ UNCHANGED <<socketVars, paginatorVars, sessionLog, applied>>

\* A click on an option of the log switcher.
SelectLogType(logType) ==
  /\ scrollRegistered
  /\ Len(paginators) < MaxPaginators
  /\ Len(logCalls) < MaxLogCalls
  /\ SelectLogTypeOn(logType)
  /\ UNCHANGED scrollRegistered
  /\ UNCHANGED <<socketVars, paginatorVars, sessionLog, applied>>

\* A scroll event: the listener is extendLog itself, called with the event
\* as its only argument.  Its first step is paginator.getPage().
Scroll ==
  /\ scrollRegistered
  /\ Len(logCalls) < MaxLogCalls
  /\ paginators' = CursorMoved(paginators, paginator)
  /\ logCalls' = Append(logCalls, LogCall("scroll", 0, paginators, paginator))
  /\ UNCHANGED <<paginator, scrollRegistered>>
  /\ UNCHANGED <<socketVars, paginatorVars, sessionLog, applied>>

\* What the then handler of extendLog does after getPage has resolved, ps
\* being the paginators after the handlers of getPage: called by the scroll
\* listener it has no log type, columnHeaders.get(undefined) is undefined
\* and formatLogData throws; else it reads endReached of the page's
\* paginator, and calls extendLog again when the table ends above the
\* bottom of the window.
AfterPage(origin, ps, below) ==
  IF origin = "scroll" THEN "TypeError"
  ELSE IF ps[paginator].endReached THEN "complete"
  ELSE IF below THEN "extendLog" ELSE "idle"

\* The reply to the request of logCalls[i] arrives; below says whether the
\* table then ends above the bottom of the window.
LogResponse(i, reply, below) ==
  /\ logCalls[i].status = "pending"
  /\ LET c == logCalls[i]
         exhausted == reply.kind # "ok" /\ IsExhaustion(ErrorOf(reply), TRUE)
         rejected == reply.kind # "ok" /\ ~exhausted
         ps == IF exhausted THEN [paginators EXCEPT ![c.on].endReached = TRUE]
               ELSE paginators
         next == IF rejected THEN "rethrow" ELSE AfterPage(c.origin, ps, below)
         done == [logCalls EXCEPT ![i] =
                    [c EXCEPT !.status = IF rejected THEN "rejected" ELSE "resolved",
                              !.reply = ErrorOf(reply),
                              !.endReached = ps[c.on].endReached,
                              !.next = next]]
     IN
       IF next = "extendLog"
       THEN /\ Len(logCalls) < MaxLogCalls
            /\ paginators' = CursorMoved(ps, paginator)
            /\ logCalls' = Append(done, LogCall("extendLog", c.chain, ps, paginator))
       ELSE /\ paginators' = ps
            /\ logCalls' = done
  /\ UNCHANGED <<paginator, scrollRegistered>>
  /\ UNCHANGED <<socketVars, paginatorVars, sessionLog, applied>>

ViewerNext ==
  \/ Load
  \/ \E t \in LogTypes : SelectLogType(t)
  \/ Scroll
  \/ \E i \in DOMAIN logCalls, r \in Replies, below \in BOOLEAN : LogResponse(i, r, below)

\* ========================================================== specifications
\* The socket, beside a paginator nobody uses.
Init ==
  /\ eventId = 0
  /\ handlers = [n \in InboundNames |-> <<>>]
  /\ listeners = <<>>
  /\ calls = <<>>
  /\ emitted = <<>>
  /\ connected = TRUE
  /\ dispatch = NoDispatch
  /\ page = 0
  /\ pages = Null
  /\ endReached = FALSE
  /\ parameters = [page |-> Null, session_id |-> Null]
  /\ authenticate = FALSE
  /\ cookies = NoCookies
  /\ cachedSession = NoSession
  /\ pcalls = <<>>
  /\ requests = <<>>
  /\ got = NotCalled
  /\ stored = NothingStored
  /\ acalls = <<>>
  /\ applied = NotApplied
  /\ paginators = <<>>
  /\ paginator = 0
  /\ logCalls = <<>>
  /\ scrollRegistered = FALSE

Next == SocketNext
Spec == Init /\ [][Next]_vars

\* The paginator and the session, beside a socket nobody uses.
PaginatorInit ==
  /\ eventId = 0
  /\ handlers = [n \in InboundNames |-> <<>>]
  /\ listeners = <<>>
  /\ calls = <<>>
  /\ emitted = <<>>
  /\ connected = TRUE
  /\ dispatch = NoDispatch
  /\ page = 0
  /\ pages = Null
  /\ endReached = FALSE
  /\ parameters = [page |-> Null, session_id |-> Null]
  /\ authenticate \in BOOLEAN
  /\ cookies \in {NoCookies, StoredCookies}
  /\ cachedSession = NoSession
  /\ pcalls = <<>>
  /\ requests = <<>>
  /\ got = NotCalled
  /\ stored = NothingStored
  /\ acalls = <<>>
  /\ applied = NotApplied
  /\ paginators = <<>>
  /\ paginator = 0
  /\ logCalls = <<>>
  /\ scrollRegistered = FALSE

PaginatorSpec == PaginatorInit /\ [][PaginatorNext]_vars

\* The session alone, on a page that loads with any cookies.
SessionInit ==
  /\ eventId = 0
  /\ handlers = [n \in InboundNames |-> <<>>]
  /\ listeners = <<>>
  /\ calls = <<>>
  /\ emitted = <<>>
  /\ connected = TRUE
  /\ dispatch = NoDispatch
  /\ page = 0
  /\ pages = Null
  /\ endReached = FALSE
  /\ parameters = [page |-> Null, session_id |-> Null]
  /\ authenticate = FALSE
  /\ \E id \in StoredIdStrings :
       cookies = [sessionId |-> id,
                  sessionToken |-> IF id = <<>> THEN "none" ELSE "old"]
  /\ cachedSession = NoSession
  /\ pcalls = <<>>
  /\ requests = <<>>
  /\ got = NotCalled
  /\ stored = NothingStored
  /\ acalls = <<>>
  /\ applied = NotApplied
  /\ paginators = <<>>
  /\ paginator = 0
  /\ logCalls = <<>>
  /\ scrollRegistered = FALSE

SessionSpec == SessionInit /\ [][SessionNext]_vars

\* The functions of types.js, applied to values drawn from the sets above.
TypesInit ==
  /\ eventId = 0
  /\ handlers = [n \in InboundNames |-> <<>>]
  /\ listeners = <<>>
  /\ calls = <<>>
  /\ emitted = <<>>
  /\ connected = TRUE
  /\ dispatch = NoDispatch
  /\ page = 0
  /\ pages = Null
  /\ endReached = FALSE
  /\ parameters = [page |-> Null, session_id |-> Null]
  /\ authenticate = FALSE
  /\ cookies = NoCookies
  /\ cachedSession = NoSession
  /\ pcalls = <<>>
  /\ requests = <<>>
  /\ got = NotCalled
  /\ stored = NothingStored
  /\ acalls = <<>>
  /\ applied = NotApplied
  /\ paginators = <<>>
  /\ paginator = 0
  /\ logCalls = <<>>
  /\ scrollRegistered = FALSE

TypesSpec == TypesInit /\ [][TypesNext]_vars

\* The socket, used through its typed helpers.
HelpersInit ==
  /\ eventId = 0
  /\ handlers = [n \in InboundNames |-> <<>>]
  /\ listeners = <<>>
  /\ calls = <<>>
  /\ emitted = <<>>
  /\ connected = TRUE
  /\ dispatch = NoDispatch
  /\ page = 0
  /\ pages = Null
  /\ endReached = FALSE
  /\ parameters = [page |-> Null, session_id |-> Null]
  /\ authenticate = FALSE
  /\ cookies = NoCookies
  /\ cachedSession = NoSession
  /\ pcalls = <<>>
  /\ requests = <<>>
  /\ got = NotCalled
  /\ stored = NothingStored
  /\ acalls = <<>>
  /\ applied = NotApplied
  /\ paginators = <<>>
  /\ paginator = 0
  /\ logCalls = <<>>
  /\ scrollRegistered = FALSE

HelpersSpec == HelpersInit /\ [][HelpersNext]_vars

\* The game-log viewer of the account page, before its load listener runs.
ViewerInit ==
  /\ eventId = 0
  /\ handlers = [n \in InboundNames |-> <<>>]
  /\ listeners = <<>>
  /\ calls = <<>>
  /\ emitted = <<>>
  /\ connected = TRUE
  /\ dispatch = NoDispatch
  /\ page = 0
  /\ pages = Null
  /\ endReached = FALSE
  /\ parameters = [page |-> Null, session_id |-> Null]
  /\ authenticate = FALSE
  /\ cookies = NoCookies
  /\ cachedSession = NoSession
  /\ pcalls = <<>>
  /\ requests = <<>>
  /\ got = NotCalled
  /\ stored = NothingStored
  /\ acalls = <<>>
  /\ applied = NotApplied
  /\ paginators = <<>>
  /\ paginator = 0
  /\ logCalls = <<>>
  /\ scrollRegistered = FALSE

ViewerSpec == ViewerInit /\ [][ViewerNext]_vars

\* ========================================================== claims: socket
\* A call of sendEvent that the arriving event answers: the event reached
\* the listeners under the call's response name with the call's id.
Answers(d, c) ==
  /\ d.delivered
  /\ d.data.name = c.responseName
  /\ d.data.response_to = c.eventId

\* C1: with any number of calls in flight and the responses arriving in any
\* order, a pending call is resolved by the response that carries its own
\* event id under its response name, with that response as its value, and
\* no other event changes the call's promise.
C1_CorrelatedById ==
  [][ \A k \in DOMAIN calls :
        /\ (calls[k].status = "pending" /\ Answers(dispatch', calls[k]))
             => (calls'[k].status = "resolved" /\ calls'[k].value = dispatch'.data)
        /\ ~Answers(dispatch', calls[k]) => calls'[k] = calls[k] ]_vars

\* Two calls waiting for the same response name are in flight together and
\* the response to the later one has arrived first: the later call is
\* resolved with it while the earlier call is still pending.
C1_Witness ==
  /\ Len(calls) >= 2
  /\ calls[1].responseName = calls[2].responseName
  /\ calls[1].status = "pending"
  /\ calls[2].status = "resolved"
  /\ dispatch.delivered /\ dispatch.data = calls[2].value
  /\ calls[2].value.response_to = 1

\* C2: once a call is complete, no waiter of its correlation id is registered
\* on the connection any more.
C2_WaiterRemoved ==
  \A k \in DOMAIN calls :
    calls[k].status # "pending" =>
      \A i \in DOMAIN listeners : listeners[i].eventId # calls[k].eventId

\* C3: the k-th call (from 0) is given the id k, which is the id emitted with
\* its event; the counter is the number of calls made so far.
C3_IdsCountCalls ==
  /\ eventId = Len(emitted)
  /\ Len(calls) = Len(emitted)
  /\ \A k \in DOMAIN emitted :
       emitted[k].data.event_id = k - 1 /\ calls[k].eventId = k - 1

\* A call was made after an earlier call had been answered, and an error
\* event had arrived for one of the ids.
C3_Witness ==
  /\ Len(emitted) >= 2
  /\ calls[1].status = "resolved"
  /\ dispatch.data.name = "request_error" /\ dispatch.data.response_to = 1

\* C4: a request_error event with the id of a pending call rejects the call
\* with a KasupelError carrying the code and message of the event.
C4_ErrorRejects ==
  (dispatch.delivered /\ dispatch.data.name = "request_error") =>
    \A k \in DOMAIN calls :
      (calls[k].eventId = dispatch.data.response_to /\ calls[k].status # "resolved")
        => /\ calls[k].status = "rejected"
           /\ calls[k].error = NewKasupelError(dispatch.data)

\* C5: when the transport disconnects, every call pending at that moment is
\* rejected with a ConnectionLost error.
C5_DisconnectRejects ==
  [][ (connected /\ ~connected') =>
        \A k \in DOMAIN calls :
          calls[k].status = "pending" =>
            (calls'[k].status = "rejected" /\ calls'[k].error.kind = "ConnectionLost")
    ]_vars

\* C6: on an occurrence of an event with subscribed handlers, the handlers
\* invoked are the subscribed ones, each once, in the order of registration.
C6_HandlersInvokedInOrder ==
  dispatch.any => dispatch.invoked = handlers[dispatch.data.name]

\* What the claim promises a handler of an event: the tuple decoded from the
\* event's payload.
DecodedTuple(data) ==
  IF data.name = "game_start" THEN <<>>
  ELSE << [type |-> "GameState", of |-> data.body] >>

\* C21: whenever an event with a processor arrives and a handler is
\* subscribed to it, each handler is called, with the tuple decoded from the
\* payload: (GameState) for game_state, () for game_start.
C21_HandlersGetDecodedTuple ==
  (dispatch.any /\ dispatch.data.name \in ProcessorNames) =>
    /\ ~dispatch.args.threw
    /\ dispatch.args.value = DecodedTuple(dispatch.data)
    /\ Len(dispatch.invoked) = Len(handlers[dispatch.data.name])

\* C23: a game_state event that answers a pending call waiting on that name
\* resolves the call and also reaches every handler subscribed to the name;
\* one that answers no pending call reaches the handlers and settles no
\* promise.
C23_ResponseAlsoPushed ==
  [][ (dispatch'.data.name = "game_state") =>
        /\ dispatch'.invoked = handlers["game_state"]
        /\ \A k \in DOMAIN calls :
             IF /\ calls[k].status = "pending"
                /\ calls[k].responseName = "game_state"
                /\ calls[k].eventId = dispatch'.data.response_to
             THEN calls'[k].status = "resolved"
             ELSE calls'[k] = calls[k] ]_vars

\* C24: the events are handed to the transport in the order of the calls of
\* sendEvent: the k-th event emitted is that of the k-th call, whatever
\* arrived in between.
C24_EmittedInCallOrder ==
  /\ Len(emitted) = Len(calls)
  /\ \A k \in DOMAIN emitted :
       /\ emitted[k].name = calls[k].name
       /\ emitted[k].data.event_id = calls[k].eventId

\* Two calls for different events were made and only the first has been
\* answered: the log holds the first call's event before the second's.
C24_Witness ==
  /\ Len(emitted) = 2
  /\ emitted[1].name = "resign" /\ emitted[2].name = "game_state"
  /\ calls[1].status = "resolved" /\ calls[2].status = "pending"

C22_HelpersCarryArgument ==
  applied.fn \in {"makeMove", "claimDraw"} =>
    LET event == emitted[Len(emitted)] IN
      /\ event.data.event_id = calls[Len(calls)].eventId
      /\ applied.fn = "makeMove" =>
           /\ event.name = "move"
           /\ \A f \in DOMAIN MoveApiFormat(applied.input) :
                f \in DOMAIN event.data /\ event.data[f] = MoveApiFormat(applied.input)[f]
      /\ applied.fn = "claimDraw" =>
           /\ event.name = "claim_draw"
           /\ \E f \in DOMAIN event.data \ {"event_id"} :
                event.data[f] = ValueFor("Conclusion", applied.input)

\* ========================================================== claims: paginator
AutoCalls == SelectSeq(pcalls, LAMBDA c : c.autoPage)

\* What Session.getSession would do now: return a session.
SessionAvailable ==
  cachedSession # NoSession \/ ParseInt(cookies.sessionId) # Null

\* C7, as stated: the k-th call without a page (from 0) issues a request, for
\* page k; requests are issued in call order and carry the page chosen for
\* their call.
C7_EveryCallRequestsItsPage ==
  /\ \A k \in DOMAIN AutoCalls : AutoCalls[k].page = k - 1 /\ AutoCalls[k].requested
  /\ \A r \in DOMAIN requests : requests[r].page = pcalls[requests[r].call].page
  /\ \A r1, r2 \in DOMAIN requests : r1 < r2 => requests[r1].call < requests[r2].call

\* C7, amended: the k-th call without a page (from 0) chooses page k; it
\* issues its request at once unless the paginator authenticates and no
\* session is available, and then it issues none; requests are issued in call
\* order, one per call that issues one, and carry the page chosen for their
\* call.
C7_AutoPagesInOrder ==
  /\ [](/\ \A k \in DOMAIN AutoCalls : AutoCalls[k].page = k - 1
        /\ \A r \in DOMAIN requests : requests[r].page = pcalls[requests[r].call].page
        /\ \A r1, r2 \in DOMAIN requests : r1 < r2 => requests[r1].call < requests[r2].call
        /\ \A i \in DOMAIN pcalls :
             pcalls[i].requested <=> \E r \in DOMAIN requests : requests[r].call = i)
  /\ [][ Len(pcalls') = Len(pcalls) + 1 =>
           LET c == pcalls'[Len(pcalls')] IN
             /\ c.requested <=> (~authenticate \/ SessionAvailable)
             /\ c.requested =>
                  requests' = Append(requests, [page |-> c.page, call |-> Len(pcalls')])
             /\ ~c.requested => requests' = requests ]_vars

\* On an authenticating paginator the first call found no session and issued
\* nothing; after a login the next two calls overlap, request pages 1 and 2,
\* and the later one completes first.
C7_Witness ==
  /\ Len(pcalls) >= 3
  /\ pcalls[1].autoPage /\ pcalls[2].autoPage /\ pcalls[3].autoPage
  /\ ~pcalls[1].requested
  /\ pcalls[2].status = "pending" /\ pcalls[3].status = "resolved"
  /\ requests = <<[page |-> 1, call |-> 2], [page |-> 2, call |-> 3]>>

\* A step of a call with an explicit page: the call itself, or its completion.
ExplicitIssued ==
  Len(pcalls') = Len(pcalls) + 1 /\ ~pcalls'[Len(pcalls')].autoPage
ExplicitCompleted ==
  \E i \in DOMAIN pcalls :
    ~pcalls[i].autoPage /\ pcalls[i].status = "pending" /\ pcalls'[i].status # "pending"

\* C8, as stated: a call with an explicit page changes no field of the
\* paginator, whether it succeeds or fails.
C8_ExplicitChangesNothing ==
  [][ (ExplicitIssued \/ ExplicitCompleted) => UNCHANGED paginatorFields ]_vars

\* C8, amended: a call with an explicit page p requests page p and leaves the
\* cursor and endReached as they were, whether it succeeds or fails.
C8_ExplicitKeepsCursor ==
  [][ /\ (ExplicitIssued \/ ExplicitCompleted) => UNCHANGED <<page, endReached>>
      /\ ExplicitIssued =>
           LET c == pcalls'[Len(pcalls')] IN
             /\ c.page \in ExplicitPages
             /\ c.requested =>
                  /\ Len(requests') = Len(requests) + 1
                  /\ requests'[Len(requests')].page = c.page ]_vars

\* A call with an explicit page has succeeded, and one has failed, after the
\* cursor had advanced; the page count was recorded.
C8_Witness ==
  /\ page = 1
  /\ pages # Null
  /\ \E i, j \in DOMAIN pcalls :
       /\ ~pcalls[i].autoPage /\ pcalls[i].status = "resolved"
       /\ ~pcalls[j].autoPage /\ pcalls[j].status = "rejected"

\* The completion of call i in this step.
Completes(i) == pcalls[i].status = "pending" /\ pcalls'[i].status # "pending"

\* C9: a call without a page that receives the exhaustion code resolves to
\* an empty sequence, and endReached is true afterwards.
C9_ExhaustionEndsQuietly ==
  [][ \A i \in DOMAIN pcalls :
        (Completes(i) /\ pcalls[i].autoPage
           /\ pcalls'[i].reply.kind = "KasupelError"
           /\ pcalls'[i].reply.code = ExhaustionCode)
        => /\ pcalls'[i].status = "resolved"
           /\ pcalls'[i].result = <<>>
           /\ endReached' ]_vars

\* Page 0 returned 2 items and page 1 the exhaustion code: the two calls
\* yield lengths 2 and 0, and endReached is true.
C9_Witness ==
  /\ Len(pcalls) >= 2
  /\ pcalls[1].autoPage /\ pcalls[1].page = 0
  /\ pcalls[1].status = "resolved" /\ Len(pcalls[1].result) = 2
  /\ pcalls[2].autoPage /\ pcalls[2].page = 1
  /\ pcalls[2].reply.code = ExhaustionCode
  /\ pcalls[2].status = "resolved" /\ Len(pcalls[2].result) = 0
  /\ endReached

\* C10: an error other than the exhaustion code on a call without a page,
\* and any error on a call with an explicit page, rejects the promise with
\* that error and leaves endReached as it was.
C10_OtherErrorsPropagate ==
  [][ /\ \A i \in DOMAIN pcalls :
           (Completes(i) /\ pcalls'[i].reply.kind # "ok"
              /\ ~(pcalls[i].autoPage /\ pcalls'[i].reply.code = ExhaustionCode))
           => /\ pcalls'[i].status = "rejected"
              /\ pcalls'[i].error = ErrorOf(pcalls'[i].reply)
              /\ endReached' = endReached
      /\ (Len(pcalls') = Len(pcalls) + 1 /\ pcalls'[Len(pcalls')].status = "rejected")
           => /\ pcalls'[Len(pcalls')].error.kind = "NotLoggedInError"
              /\ endReached' = endReached ]_vars

\* A call with an explicit page was rejected with the exhaustion code, a call
\* without a page with another code, and endReached is still false.
C10_Witness ==
  /\ ~endReached
  /\ \E i, j \in DOMAIN pcalls :
       /\ ~pcalls[i].autoPage /\ pcalls[i].status = "rejected"
       /\ pcalls[i].error = [kind |-> "KasupelError", code |-> ExhaustionCode]
       /\ pcalls[j].autoPage /\ pcalls[j].status = "rejected"
       /\ pcalls[j].error = [kind |-> "KasupelError", code |-> OtherCode]

\* C11: endReached is false at construction and, once true, stays true
\* through every later call of getPage and every later completion of one,
\* whether the call had a page or not, succeeded or failed, overlapped
\* another or not.
C11_EndReachedIsSticky ==
  /\ (pcalls = <<>> => ~endReached)
  /\ [][ endReached => endReached' ]_vars

\* After the exhaustion code set endReached, a call without a page and a
\* call with one were made; one of them returned a page and the other
\* failed, and endReached is still true.
C11_Witness ==
  /\ endReached
  /\ \E i, j, k \in DOMAIN pcalls :
       /\ pcalls[i].autoPage /\ pcalls[i].reply.code = ExhaustionCode
       /\ pcalls[j].before.endReached /\ pcalls[j].status = "resolved"
       /\ pcalls[j].reply.kind = "ok"
       /\ pcalls[k].before.endReached /\ pcalls[k].status = "rejected"
       /\ pcalls[j].autoPage # pcalls[k].autoPage

\* C12: every call without a page advances the cursor by exactly 1, whatever
\* becomes of the call: after k such calls the cursor is k, and no other step
\* moves it.
C12_CursorCountsAutoCalls ==
  /\ [](page = Len(AutoCalls))
  /\ [][ page' = page + (IF Len(pcalls') = Len(pcalls) + 1
                            /\ pcalls'[Len(pcalls')].autoPage THEN 1 ELSE 0) ]_vars

\* Three calls without a page: one found no session, one received the
\* exhaustion code, one another error; the cursor is 3.
C12_Witness ==
  /\ page = 3
  /\ \E i, j, k \in DOMAIN pcalls :
       /\ pcalls[i].autoPage /\ pcalls[i].error.kind = "NotLoggedInError"
       /\ pcalls[j].autoPage /\ pcalls[j].status = "resolved"
       /\ pcalls[j].reply.code = ExhaustionCode
       /\ pcalls[k].autoPage /\ pcalls[k].status = "rejected"
       /\ pcalls[k].error = [kind |-> "KasupelError", code |-> OtherCode]

\* C20, as stated: every call without a page issues a request.
C20_EveryAutoCallFetches ==
  \A i \in DOMAIN pcalls : pcalls[i].autoPage => pcalls[i].requested

\* C20, amended: a call without a page issues a request for the cursor's
\* page exactly when the paginator does not authenticate or a session is
\* available, whatever the page count last reported and whatever endReached;
\* and endReached becomes true only when a call without a page receives the
\* exhaustion code.
C20_PageCountNeverGates ==
  [][ /\ (Len(pcalls') = Len(pcalls) + 1 /\ pcalls'[Len(pcalls')].autoPage) =>
           /\ pcalls'[Len(pcalls')].requested <=> (~authenticate \/ SessionAvailable)
           /\ pcalls'[Len(pcalls')].requested =>
                requests' = Append(requests, [page |-> page, call |-> Len(pcalls')])
      /\ (~endReached /\ endReached') =>
           \E i \in DOMAIN pcalls :
             /\ Completes(i) /\ pcalls[i].autoPage
             /\ pcalls'[i].reply.kind = "KasupelError"
             /\ pcalls'[i].reply.code = ExhaustionCode ]_vars

\* A call without a page was made when endReached was true and the cursor
\* was at the page count last reported, and it issued a request for the
\* cursor's page.
C20_Witness ==
  \E i \in DOMAIN pcalls :
    /\ pcalls[i].autoPage /\ pcalls[i].requested
    /\ pcalls[i].before.endReached
    /\ pcalls[i].before.pages # Null /\ pcalls[i].page >= pcalls[i].before.pages
    /\ \E r \in DOMAIN requests : requests[r] = [page |-> pcalls[i].page, call |-> i]

\* ========================================================== claims: session
\* A string of decimal digits, and nothing else.
WellFormedInteger(s) == s # <<>> /\ \A i \in DOMAIN s : s[i] \in Digits

\* C14: getSession returns the identity held by the cookies, and throws
\* NotLoggedInError whenever the stored session id is absent or is not a
\* well-formed integer.  (got is reset by storeSession and forgetSession, so
\* the cookies are those the call saw.)
C14_MalformedIdIsRefused ==
  got.kind # "none" =>
    IF WellFormedInteger(cookies.sessionId)
    THEN got = [kind |-> "session",
                session |-> [sessionId |-> ParseInt(cookies.sessionId),
                             sessionToken |-> cookies.sessionToken]]
    ELSE got.kind = "NotLoggedInError"

\* C15: the calls of getSession after storeSession(id, token) return
\* exactly (id, token), whatever session was cached before the store, and
\* the calls after forgetSession throw NotLoggedInError, under every
\* interleaving of the three operations.
C15_StoreAndForgetTakeEffect ==
  got.kind # "none" =>
    /\ stored.kind = "stored" =>
         got = [kind |-> "session",
                session |-> [sessionId |-> stored.id, sessionToken |-> stored.token]]
    /\ stored.kind = "forgotten" => got.kind = "NotLoggedInError"

\* A session was cached, storeSession(12, "tok2") replaced it, and the next
\* getSession returned (12, "tok2").
C15_Witness ==
  /\ stored.kind = "stored" /\ stored.id = 12 /\ stored.token = "tok2"
  /\ stored.dropped = [sessionId |-> 7, sessionToken |-> "tok"]
  /\ got = [kind |-> "session",
            session |-> [sessionId |-> 12, sessionToken |-> "tok2"]]

\* ========================================================== claims: types
\* The entry of a table of the response under the key an item holds, or
\* undefined when the table has no entry under it.
EntryFor(table, key) ==
  IF \E name \in DOMAIN table : name = PropertyName(key)
  THEN table[CHOOSE name \in DOMAIN table : name = PropertyName(key)]
  ELSE Undefined

\* C13: for every item of a fetched page, the decoder receives, for each
\* configured reference field the item has, the entry of the users table
\* under the item's original key, and every other field as it was; the
\* decoded game holds the decoded user where there is such an entry.
C13_ReferencesResolved ==
  applied.fn = "getPage.then" =>
    \A i \in DOMAIN applied.response.games :
      LET item == applied.response.games[i]
          passed == applied.passed[i]
          users == applied.response.users
      IN /\ DOMAIN passed = DOMAIN item
         /\ \A f \in DOMAIN item :
              IF f \in DOMAIN ReferenceFields
              THEN /\ passed[f] = EntryFor(users, item[f])
                   /\ applied.result[i][f] =
                        IF EntryFor(users, item[f]) = Undefined THEN JsNull
                        ELSE NewUser(EntryFor(users, item[f]))
              ELSE passed[f] = item[f]
         /\ applied.result[i].id = item.id
         /\ applied.result[i].turnNumber = item.turn_number

\* The item {host: 3, away: null} with users {"3": u3, "4": u4} was decoded
\* to a game whose host is the decoded user u3 and that has no away player.
C13_Witness ==
  /\ applied.fn = "getPage.then"
  /\ \E i \in DOMAIN applied.response.games :
       /\ applied.response.games[i].host = 3
       /\ applied.response.games[i].away = Null
       /\ applied.result[i].host = [type |-> "User", id |-> 3, username |-> "u3"]
       /\ applied.result[i].away = JsNull
       /\ applied.result[i].turnNumber = 9

\* C16: a Move, with or without a promotion piece, is equal field for field
\* to the Move rebuilt from its API format, and a TimeControl to the
\* TimeControl rebuilt from its API format.
C16_RoundTrips ==
  applied.fn \in {"Move", "TimeControl"} =>
    /\ applied.output = applied.input
    /\ \A f \in DOMAIN applied.input : applied.output[f] = applied.input[f]

\* A move that promotes to a queen went through the API format, where the
\* promotion is the number 5, and came back.
C16_Witness ==
  /\ applied.fn = "Move"
  /\ applied.input.promotion = Sym("PieceType", "QUEEN")
  /\ applied.wire.promotion = Num(5)
  /\ applied.output.promotion = Sym("PieceType", "QUEEN")

\* C17: for every enum, decoding an integer outside its values with
\* getByValue fails with a DecodeError rather than returning a value.
C17_UnknownValueIsDecodeError ==
  (applied.fn = "getByValue"
     /\ applied.value \notin 1 .. Len(EnumNames[applied.enum]))
  => applied.threw = "DecodeError"

\* C26: every enum maps its options one to one onto 1..n in declaration
\* order: the i-th declared option has the value i, getByValue(valueFor(s))
\* is s for every option s, and valueFor(getByValue(v)) is v for every v in
\* 1..n.
C26_EnumIsBijection ==
  applied.fn = "Enum" =>
    /\ applied.value = Num(applied.index)
    /\ applied.back = applied.option
    /\ applied.decoded = applied.option
    /\ applied.encoded = Num(applied.index)

C26_Witness ==
  /\ applied.fn = "Enum"
  /\ applied.enum = "Conclusion"
  /\ applied.option = Sym("Conclusion", "AGREED_DRAW")
  /\ applied.value = Num(8)
  /\ applied.back = Sym("Conclusion", "AGREED_DRAW")
  /\ applied.encoded = Num(8)

\* The digits of a domain before its first 0 are the first digits of a code.
NonZeroPrefixIsPrefix(code, domain) ==
  LET d == ToDigits(domain)
      c == ToDigits(code)
      zeros == { i \in DOMAIN d : d[i] = "0" }
      k == IF zeros = {} THEN Len(d)
           ELSE (CHOOSE i \in zeros : \A j \in zeros : i <= j) - 1
  IN k <= Len(c) /\ \A i \in 1 .. k : c[i] = d[i]

AccountCompletes(i) == acalls[i].status = "pending" /\ acalls'[i].status # "pending"
AccountIssued == Len(acalls') = Len(acalls) + 1

\* C25, as stated: when a logout or deleteAccount succeeds the cache is
\* emptied and getSession fails afterwards; a call that fails, at the server
\* or before, has left the cached session and the cookies as they were.
C25_FailureChangesNothing ==
  /\ [](\A i \in DOMAIN acalls :
          acalls[i].status = "rejected" => ~acalls[i].filled)
  /\ [][ \A i \in DOMAIN acalls : AccountCompletes(i) =>
            IF acalls'[i].status = "resolved"
            THEN cachedSession' = NoSession /\ ParseInt(cookies'.sessionId) = Null
            ELSE UNCHANGED <<cachedSession, cookies>> ]_vars

\* C25, amended: when a logout or deleteAccount succeeds the cache is emptied
\* and getSession fails afterwards; a call that fails leaves the cookies as
\* they were, and the cached session as it was except that the call itself,
\* asking for the session, fills an empty cache from the cookies.
C25_TornDownOnSuccessOnly ==
  [][ /\ \A i \in DOMAIN acalls : AccountCompletes(i) =>
           IF acalls'[i].status = "resolved"
           THEN cachedSession' = NoSession /\ ParseInt(cookies'.sessionId) = Null
           ELSE UNCHANGED <<cachedSession, cookies>>
      /\ AccountIssued =>
           /\ cookies' = cookies
           /\ cachedSession # NoSession => cachedSession' = cachedSession
           /\ cachedSession = NoSession =>
                cachedSession' \in
                  { NoSession,
                    [sessionId |-> ParseInt(cookies.sessionId),
                     sessionToken |-> cookies.sessionToken] }
           /\ ~acalls'[Len(acalls')].requested => cachedSession' = cachedSession ]_vars

\* A deleteAccount was refused by the server, which left the session in
\* place, and a logout then succeeded: no session is left.
C25_Witness ==
  /\ Len(acalls) = 2
  /\ acalls[1].fn = "deleteAccount" /\ acalls[1].requested
  /\ acalls[1].status = "rejected"
  /\ acalls[2].fn = "logout" /\ acalls[2].status = "resolved"
  /\ acalls[2].cached
  /\ cachedSession = NoSession /\ ParseInt(cookies.sessionId) = Null

\* The identity the cookies hold, as the Session constructor reads it.
IdentityOfCookies ==
  [sessionId |-> ParseInt(cookies.sessionId), sessionToken |-> cookies.sessionToken]

\* C30: the cache is filled only by a read that succeeds, with the identity
\* read; a getSession that throws NotLoggedInError leaves it empty; and once
\* a getSession has returned an identity every later one returns the same,
\* until storeSession or forgetSession (which reset got).
C30_CacheFilledBySuccessfulRead ==
  /\ [](got.kind = "NotLoggedInError" => cachedSession = NoSession)
  /\ [](got.kind = "session" => cachedSession = got.session)
  /\ [][ /\ (got.kind = "session" /\ got'.kind # "none") => got' = got
         /\ (cachedSession = NoSession /\ cachedSession' # NoSession) =>
              /\ ParseInt(cookies.sessionId) # Null
              /\ cachedSession' = IdentityOfCookies
              /\ (got'.kind = "session" /\ got'.session = cachedSession')
                 \/ (AccountIssued /\ acalls'[Len(acalls')].requested) ]_vars

\* The page loaded with the cookies of session 12; getSession read them and
\* the identity is cached.
C30_Witness ==
  /\ stored.kind = "none"
  /\ cookies.sessionId = <<"1", "2">>
  /\ got = [kind |-> "session", session |-> [sessionId |-> 12, sessionToken |-> "old"]]
  /\ cachedSession = got.session

\* ========================================================== claims: account page
\* The getPage calls in flight on the paginator at index p.
InFlightOn(p) ==
  { i \in DOMAIN logCalls : logCalls[i].status = "pending" /\ logCalls[i].on = p }

\* C27: in the game-log viewer no Paginator ever has more than one
\* auto-advance getPage call in flight, whatever the order of the load, the
\* log-type switches, the scroll events and the replies.
C27_OneCallInFlight ==
  \A p \in DOMAIN paginators : Cardinality(InFlightOn(p)) <= 1

\* The calls of the chain begun by the selectLogType call that made
\* paginator c.
ChainCalls(c) ==
  { i \in DOMAIN logCalls : logCalls[i].chain = c /\ logCalls[i].origin # "scroll" }

\* C29: the extendLog calls of a chain begun by selectLogType make their
\* getPage calls one after another, none of them after a call of the chain
\* has completed with endReached true on its paginator, and the call that
\* the server answers with the exhaustion code ends the chain without an
\* error: it resolves and extendLog is not called again.
C29_ChainStopsAtEnd ==
  \A c \in DOMAIN paginators :
    /\ Cardinality({ i \in ChainCalls(c) : logCalls[i].status = "pending" }) <= 1
    /\ \A i, j \in ChainCalls(c) :
         (i < j) => (logCalls[i].status = "resolved" /\ ~logCalls[i].endReached)
    /\ \A i \in ChainCalls(c) :
         logCalls[i].reply.code = ExhaustionCode =>
           logCalls[i].status = "resolved" /\ logCalls[i].next \in {"complete", "idle"}

====
